---- MODULE Spec2Model ----
(***************************************************************************)
(* Order-creation orchestrator of the order service                        *)
(* (internal/orderservice/service/order_service.go), together with the     *)
(* parts of the user service, the product service and the order            *)
(* repository that it calls.                                               *)
(*                                                                         *)
(* One CreateOrder call is a main thread (validate, GetUser, launch one    *)
(* goroutine per item, wg.Wait, commit loop, repository transaction) and   *)
(* one goroutine per launched item.  Every step that touches shared state  *)
(* is one action; the mutex mu is a variable.                              *)
(*                                                                         *)
(* Spec follows one call with any request, SpecPair two calls at the same  *)
(* time, SpecReads one call with GetOrderByID calls around it; SpecStock   *)
(* and SpecCatalog follow the handlers of the product service, the         *)
(* transaction of UpdateStock taken step by step.  SpecLive is Spec under  *)
(* the fairness of the Go scheduler, SpecCancel is Spec with a caller that *)
(* may cancel the call's context, and SpecUsers follows CreateUser and     *)
(* LoginUser of the user service.                                          *)
(***************************************************************************)
EXTENDS Integers, Sequences, FiniteSets, TLC

\* ------------------------------------------------------------------ bounds
MaxItems == 3

\* ------------------------------------------------------- program constants
MaxInt32 == 2147483647
MinInt32 == (-MaxInt32) - 1

\* A quantity large enough for three of them to leave the int32 range.
BigQty == (MaxInt32 \div 2) + 2

\* The CreateOrder calls the model follows; a call's name also stands for the
\* uuid the repository gives its order.
Calls == {"c1", "c2"}

\* ------------------------------------------------------------- int32 / map
\* a + b in Go int32 arithmetic (two's complement wrap-around), computed
\* without leaving the 32-bit range in any intermediate value.
Add32(a, b) ==
  IF a >= 0 /\ b >= 0
    THEN IF a > MaxInt32 - b THEN (a + MinInt32) + (b + MinInt32) ELSE a + b
    ELSE IF a < 0 /\ b < 0
      THEN IF a < MinInt32 - b THEN (a - MinInt32) + (b - MinInt32) ELSE a + b
      ELSE a + b

\* m[k] of a Go map[string]int32: the zero value for a missing key.
MapGet(m, k) == IF k \in DOMAIN m THEN m[k] ELSE 0

\* m[k] = v
MapPut(m, k, v) == [x \in (DOMAIN m) \cup {k} |-> IF x = k THEN v ELSE m[x]]

\* ------------------------------------------------------------ error values
ErrInvalidOrderData          == "ErrInvalidOrderData"
ErrUserValidationFailed      == "ErrUserValidationFailed"
ErrProductFetchFailed        == "ErrProductFetchFailed"
ErrProductStockUpdateFailed  == "ErrProductStockUpdateFailed"
ErrInsufficientStockForOrder == "ErrInsufficientStockForOrder"
\* errors.New("failed to process all items in the order"): wraps no sentinel
ErrUntyped                   == "failed to process all items in the order"
\* an error of database/sql handed through unchanged by the repository
ErrDB                        == "database error"
\* a nil error
NilErr                       == "nil"

StatusPending == "PENDING"

\* --------------------------------------------------- collaborators' data
\* Rows of the users table and of the products table at start-up.
Users      == {"u1"}
ProductIDs == {"P1", "P2", "P3"}

Price(p) == CASE p = "P1" -> 10 [] p = "P2" -> 5 [] OTHER -> 0

InitStock == [p \in ProductIDs |->
                CASE p = "P1" -> 4 [] p = "P2" -> 1 [] OTHER -> BigQty]

\* ------------------------------------------------------------ the requests
UserIDs == {"", "u1", "u9"}

\* model.OrderItem as the handlers build it: ProductID and Quantity only.
Item(p, q) == [ProductID |-> p, Quantity |-> q]

ItemKinds == { Item("P1", 2), Item("P2", 1), Item("P2", 2), Item("PX", 1),
               Item("P1", 0), Item("", 1), Item("P3", BigQty) }

SeqsUpTo(S, n) == UNION {[1..k -> S] : k \in 0..n}

Requests == [userID : UserIDs, items : SeqsUpTo(ItemKinds, MaxItems)]

NoRequest == [userID |-> "", items |-> <<>>]

\* ------------------------------------------------- user service: GetUser
\* The status code UserGRPCServer.GetUser answers with; down is a failure of
\* the transport or of the user database.
GetUserCode(userID, down) ==
  IF userID = "" THEN "InvalidArgument"
  ELSE IF down THEN "Internal"
  ELSE IF userID \notin Users THEN "NotFound"
  ELSE "OK"

\* ----------------------------------------------- user service: passwords
\* bcrypt.GenerateFromPassword: the hash carries its salt and is a one-way
\* image of the password (here a tagged tuple nobody but
\* CheckPasswordHash opens).
HashPassword(password, salt) == <<"bcrypt", salt, password>>

\* bcrypt.CompareHashAndPassword(hash, password) == nil
CheckPasswordHash(password, hash) ==
  /\ Len(hash) = 3
  /\ hash[1] = "bcrypt"
  /\ hash = HashPassword(password, hash[2])

ErrUserAlreadyExists  == "ErrUserAlreadyExists"
ErrUserNotFound       == "ErrUserNotFound"
ErrInvalidCredentials == "ErrInvalidCredentials"
\* errors.New("failed to process password")
ErrPassword           == "failed to process password"
\* the driver's error for a violated UNIQUE constraint
ErrUniqueViolation    == "pq: duplicate key value violates unique constraint"

Emails    == {"e1", "e2"}
Usernames == {"n1", "n2", "n3"}
Passwords == {"pw", "xx"}

\* The users table at start-up: the user the orders are placed for.
InitUsers == {[id |-> "u1", username |-> "n1", email |-> "e1",
               password_hash |-> HashPassword("pw", "s0")]}

\* ---------------------------------------------- product service: GetProduct
NoResp == [code |-> "", Id |-> "", Price |-> 0, StockQuantity |-> 0]

\* A variant whose repository does not tell "no rows" from a row: an unknown
\* id answers OK with a zero-valued product.
GetProductNoRowsOK(stk, productID) ==
  IF productID = "" THEN [NoResp EXCEPT !.code = "InvalidArgument"]
  ELSE IF productID \notin DOMAIN stk
    THEN [code |-> "OK", Id |-> productID, Price |-> 0, StockQuantity |-> 0]
    ELSE [code |-> "OK", Id |-> productID, Price |-> Price(productID),
          StockQuantity |-> stk[productID]]

\* ProductGRPCServer.GetProduct over ProductService.GetProductByID and
\* ProductRepository.GetProductByID: the status code and the product row.
\* (A read the database fails answers Internal; the orchestrator treats it
\* as it treats InvalidArgument, and the model leaves it out.)
GetProduct(stk, productID) ==
  IF productID = "" THEN [NoResp EXCEPT !.code = "InvalidArgument"]
  ELSE IF productID \notin DOMAIN stk THEN [NoResp EXCEPT !.code = "NotFound"]
  ELSE [code |-> "OK", Id |-> productID, Price |-> Price(productID),
        StockQuantity |-> stk[productID]]

\* --------------------------------------------- product service: UpdateStock
\* A variant of the repository without the check.
StockRejectedNever(newStock) == FALSE

\* newStock < 0 of ProductRepository.UpdateStock
StockRejected(newStock) == newStock < 0

\* A variant of the SELECT without FOR UPDATE: it waits for no one.
CanLockAlways(holder) == TRUE

\* SELECT ... FOR UPDATE, and UPDATE, wait while another transaction holds
\* the row.
CanLock(holder) == holder = ""

\* A variant that answers OK without writing the row.
UpdateStockDryRun(stk, productID, quantityChange, down) ==
  [code |-> "OK", stock |-> stk]

\* ProductGRPCServer.UpdateStock over ProductService.UpdateStock and
\* ProductRepository.UpdateStock.  The repository runs SELECT ... FOR UPDATE,
\* the check and the UPDATE in one transaction, so the row changes in one
\* step or not at all.  Answers the status code and the stock table after it.
UpdateStock(stk, productID, quantityChange, down) ==
  IF productID = "" THEN [code |-> "InvalidArgument", stock |-> stk]
  ELSE IF down THEN [code |-> "Internal", stock |-> stk]
  ELSE IF productID \notin DOMAIN stk THEN [code |-> "NotFound", stock |-> stk]
  ELSE LET newStock == Add32(stk[productID], quantityChange) IN
       IF StockRejected(newStock)
         THEN [code |-> "FailedPrecondition", stock |-> stk]
         ELSE [code |-> "OK", stock |-> [stk EXCEPT ![productID] = newStock]]

\* ------------------------------------------------------------------- state
VARIABLES
  req,                  \* CreateOrder's arguments userID and requestedItems
  pc,                   \* where the call's main goroutine is
  next,                 \* index of the next item of the launch loop
  wg,                   \* counter of the sync.WaitGroup
  mu,                   \* holder of the sync.Mutex: 0, or the item's index
  task,                 \* where the goroutine of each item is
  resp,                 \* each goroutine's productResp / err
  totalAmount,          \* var totalAmount float64
  processedItems,       \* var processedItems []model.OrderItem
  firstError,           \* var firstError error
  productStockUpdates,  \* map[string]int32
  ranged,               \* keys the range over productStockUpdates has visited
  order,                \* the *model.Order handed to the repository
  ri,                   \* index of the repository's loop over order.Items
  tx,                   \* the open sql.Tx of the repository: its pending rows
  ret,                  \* what CreateOrder returned
  stock,                \* products.stock_quantity, by product id
  orders,               \* committed rows of the orders table
  order_items,          \* committed rows of the order_items table
  userCalls,            \* the answers to the GetUser calls the call has issued
  productCalls,         \* number of GetProduct calls the call has issued
  stockCalls,           \* the UpdateStock calls the call has issued, in order
  createCalls,          \* number of repo.CreateOrder calls the call has issued
  rowLock,              \* products rows locked FOR UPDATE: the holder, or ""
  cl,                   \* the product service's handlers: one per client call
  rd,                   \* the GetOrderByID calls of the order service
  ctxDone,              \* whether the ctx of the CreateOrder call is cancelled
  users,                \* rows of the users table
  uc                    \* the calls of the user service: one per caller

callVars  == <<req, pc, next, wg, mu, task, resp, totalAmount, processedItems,
               firstError, productStockUpdates, ranged, order, ri, tx, ret>>
storeVars == <<orders, order_items>>
logVars   == <<userCalls, productCalls, stockCalls, createCalls>>
sideVars  == <<rowLock, cl, rd, ctxDone, users, uc>>
vars      == <<callVars, stock, storeVars, logVars, sideVars>>

ItemIdx == 1..MaxItems

NoError == [kind |-> NilErr, cause |-> "", item |-> 0]
NoTx    == [open |-> FALSE, orders |-> {}, items |-> {}]
NoRet   == [returned |-> FALSE, order |-> <<>>, err |-> NilErr]

\* The calls the model follows into the product service (each name also
\* stands for the uuid of the product a CreateProduct call inserts), and the
\* GetOrderByID calls it follows into the order service.
Clients == {"a1", "a2", "a3"}
Readers == {"g1", "g2"}

\* A handler of the product service that has received no call.
NoClient == [pc |-> "idle", op |-> "", productID |-> "", arg |-> 0,
             cur |-> 0, code |-> "", result |-> 0]

\* The callers the model follows into the user service (each name also
\* stands for the uuid and for the bcrypt salt the call generates).
Callers == {"k1", "k2", "k3"}

\* A call of the user service that has not begun.
NoUserCall == [pc |-> "idle", op |-> "", username |-> "", email |-> "",
               password |-> "", user |-> <<>>, token |-> <<>>, err |-> NilErr,
               creates |-> 0]

\* A GetOrderByID call that has not begun.
NoReader == [pc |-> "idle", id |-> "", order |-> <<>>, err |-> NilErr,
             before |-> 0, after |-> 0]

\* The state of the process before any CreateOrder call has begun; active is
\* the set of calls that will run and r their arguments.
InitWith(active, r) ==
  /\ req = r
  /\ pc = [c \in Calls |-> IF c \in active THEN "start" ELSE "idle"]
  /\ next = [c \in Calls |-> 1]
  /\ wg = [c \in Calls |-> 0]
  /\ mu = [c \in Calls |-> 0]
  /\ task = [c \in Calls |-> [t \in ItemIdx |-> "idle"]]
  /\ resp = [c \in Calls |-> [t \in ItemIdx |-> NoResp]]
  /\ totalAmount = [c \in Calls |-> 0]
  /\ processedItems = [c \in Calls |-> <<>>]
  /\ firstError = [c \in Calls |-> NoError]
  /\ productStockUpdates = [c \in Calls |-> <<>>]
  /\ ranged = [c \in Calls |-> {}]
  /\ order = [c \in Calls |-> <<>>]
  /\ ri = [c \in Calls |-> 1]
  /\ tx = [c \in Calls |-> NoTx]
  /\ ret = [c \in Calls |-> NoRet]
  /\ stock = InitStock
  /\ orders = {}
  /\ order_items = {}
  /\ userCalls = [c \in Calls |-> <<>>]
  /\ productCalls = [c \in Calls |-> 0]
  /\ stockCalls = [c \in Calls |-> <<>>]
  /\ createCalls = [c \in Calls |-> 0]
  /\ rowLock = [p \in ProductIDs \cup Clients |-> ""]
  /\ cl = [a \in Clients |-> NoClient]
  /\ rd = [g \in Readers |-> NoReader]
  /\ ctxDone = [c \in Calls |-> FALSE]
  /\ users = InitUsers
  /\ uc = [k \in Callers |-> NoUserCall]

\* One CreateOrder call, with any request.
Init ==
  \E r \in Requests :
    InitWith({"c1"}, [c \in Calls |-> IF c = "c1" THEN r ELSE NoRequest])

\* --------------------------------------------- OrderService.CreateOrder
requestedItems(c) == req[c].items

\* A variant whose calls go out on a context detached from the caller's.
OnCtxDetached(done, answer) == answer

\* A remote call made on ctx: a gRPC client call on a cancelled context is
\* not sent and answers Canceled; otherwise the service's answer.
OnCtx(done, answer) == IF done THEN [answer EXCEPT !.code = "Canceled"] ELSE answer

\* The outcomes of a statement of the repository run on ctx (BeginTx,
\* ExecContext, Commit): it fails when ctx is cancelled, and the database may
\* fail it at any time.
StoreFails(done) == IF done THEN {TRUE} ELSE BOOLEAN

\* A variant that tries the failed step again instead of returning.
ReturnErrRetry(c, err) ==
  /\ pc' = pc
  /\ ret' = ret

\* A variant that hands back the order it was working on with the error.
ReturnErrWithOrder(c, err) ==
  /\ pc' = [pc EXCEPT ![c] = "done"]
  /\ ret' = [ret EXCEPT ![c] = [returned |-> TRUE, order |-> order[c], err |-> err]]

\* return nil, err
ReturnErr(c, err) ==
  /\ pc' = [pc EXCEPT ![c] = "done"]
  /\ ret' = [ret EXCEPT ![c] = [returned |-> TRUE, order |-> <<>>, err |-> err]]

\* userID == "" || len(requestedItems) == 0
InvalidRequest(userID, items) == userID = "" \/ Len(items) = 0

\* The first statement of CreateOrder.
Validate(c) ==
  /\ pc[c] = "start"
  /\ IF InvalidRequest(req[c].userID, requestedItems(c))
       THEN ReturnErr(c, ErrInvalidOrderData)
       ELSE /\ pc' = [pc EXCEPT ![c] = "getUser"]
            /\ UNCHANGED ret
  /\ UNCHANGED <<req, next, wg, mu, task, resp, totalAmount, processedItems,
                 firstError, productStockUpdates, ranged, order, ri, tx>>
  /\ UNCHANGED <<stock, storeVars, logVars>>
  /\ UNCHANGED sideVars

\* A variant that treats only NotFound as a failed validation.
UserRejectedOnlyNotFound(code) == code = "NotFound"

\* err != nil after GetUser
UserRejected(code) == code # "OK"

\* 1. Validate User
GetUser(c) ==
  /\ pc[c] = "getUser"
  /\ \E down \in BOOLEAN :
       LET code == OnCtx(ctxDone[c],
                        [code |-> GetUserCode(req[c].userID, down)]).code
       IN /\ userCalls' = [userCalls EXCEPT ![c] = Append(@, code)]
          /\ IF UserRejected(code)
               THEN ReturnErr(c, ErrUserValidationFailed)
               ELSE /\ pc' = [pc EXCEPT ![c] = "launch"]
                    /\ UNCHANGED ret
  /\ UNCHANGED <<req, next, wg, mu, task, resp, totalAmount, processedItems,
                 firstError, productStockUpdates, ranged, order, ri, tx>>
  /\ UNCHANGED <<stock, storeVars, productCalls, stockCalls, createCalls>>
  /\ UNCHANGED sideVars

\* item.Quantity <= 0
QuantityRejected(q) == q <= 0

\* One iteration of `for _, item := range requestedItems`: the quantity
\* check, wg.Add(1) and the go statement.  The goroutines launched by earlier
\* iterations are already running, and keep running when this one returns.
Launch(c) ==
  /\ pc[c] = "launch"
  /\ next[c] <= Len(requestedItems(c))
  /\ IF QuantityRejected(requestedItems(c)[next[c]].Quantity)
       THEN /\ ReturnErr(c, ErrInvalidOrderData)
            /\ UNCHANGED <<next, wg, task>>
       ELSE /\ wg' = [wg EXCEPT ![c] = @ + 1]
            /\ task' = [task EXCEPT ![c][next[c]] = "lock1"]
            /\ next' = [next EXCEPT ![c] = @ + 1]
            /\ UNCHANGED <<pc, ret>>
  /\ UNCHANGED <<req, mu, resp, totalAmount, processedItems,
                 firstError, productStockUpdates, ranged, order, ri, tx>>
  /\ UNCHANGED <<stock, storeVars, logVars>>
  /\ UNCHANGED sideVars

\* ------------------------------------------------ the goroutine of one item
\* A variant whose goroutines never signal the WaitGroup.
WgDoneForgotten(n) == n

\* defer wg.Done()
WgDone(n) == n - 1

\* mu.Lock(), at the top of the goroutine and before each write
Lock(c, t) ==
  /\ task[c][t] \in {"lock1", "lock2"}
  /\ mu[c] = 0
  /\ mu' = [mu EXCEPT ![c] = t]
  /\ task' = [task EXCEPT ![c][t] = IF @ = "lock1" THEN "check" ELSE "record"]
  /\ UNCHANGED <<req, pc, next, wg, resp, totalAmount, processedItems,
                 firstError, productStockUpdates, ranged, order, ri, tx, ret>>
  /\ UNCHANGED <<stock, storeVars, logVars>>
  /\ UNCHANGED sideVars

\* firstError != nil
HasError(fe) == fe.kind # NilErr

\* "Check if an error already occurred in another goroutine": the goroutine
\* returns (and its deferred wg.Done() runs) when firstError is set.
CheckFirstError(c, t) ==
  /\ task[c][t] = "check"
  /\ mu[c] = t
  /\ mu' = [mu EXCEPT ![c] = 0]
  /\ IF HasError(firstError[c])
       THEN /\ task' = [task EXCEPT ![c][t] = "done"]
            /\ wg' = [wg EXCEPT ![c] = WgDone(@)]
       ELSE /\ task' = [task EXCEPT ![c][t] = "fetch"]
            /\ UNCHANGED wg
  /\ UNCHANGED <<req, pc, next, resp, totalAmount, processedItems,
                 firstError, productStockUpdates, ranged, order, ri, tx, ret>>
  /\ UNCHANGED <<stock, storeVars, logVars>>
  /\ UNCHANGED sideVars

\* s.productServiceClient.GetProduct(ctx, ...)
FetchProduct(c, t) ==
  /\ task[c][t] = "fetch"
  /\ productCalls' = [productCalls EXCEPT ![c] = @ + 1]
  /\ resp' = [resp EXCEPT ![c][t] =
       OnCtx(ctxDone[c],
             IF ctxDone[c] THEN NoResp
             ELSE GetProduct(stock, requestedItems(c)[t].ProductID))]
  /\ task' = [task EXCEPT ![c][t] = "lock2"]
  /\ UNCHANGED <<req, pc, next, wg, mu, totalAmount, processedItems,
                 firstError, productStockUpdates, ranged, order, ri, tx, ret>>
  /\ UNCHANGED <<stock, storeVars, userCalls, stockCalls, createCalls>>
  /\ UNCHANGED sideVars

\* A variant that also turns away an item asking for all the stock.
InsufficientStockOrEqual(stockQuantity, quantity) == stockQuantity <= quantity

\* A variant that has no stock check.
InsufficientStockUnchecked(stockQuantity, quantity) == FALSE

\* product.StockQuantity < currentItem.Quantity
InsufficientStock(stockQuantity, quantity) == stockQuantity < quantity

\* The error a goroutine has for firstError, NoError when it has none.
TaskError(r, item, t) ==
  IF r.code # "OK"
    THEN [kind |-> ErrProductFetchFailed, cause |-> r.code, item |-> t]
    ELSE IF InsufficientStock(r.StockQuantity, item.Quantity)
      THEN [kind |-> ErrInsufficientStockForOrder, cause |-> "", item |-> t]
      ELSE NoError

\* A variant that never keeps the error.
SetFirstErrorDropped(fe, e) == fe

\* if firstError == nil { firstError = ... }
SetFirstError(fe, e) == IF fe.kind = NilErr THEN e ELSE fe

\* A variant that adds the unit price once, whatever the quantity.
AddTotalUnitPrice(total, price, quantity) == total + price

\* totalAmount += product.Price * float64(currentItem.Quantity)
AddTotal(total, price, quantity) == total + price * quantity

\* A variant that adds the quantity to the delta.
DeductAsRestock(m, id, quantity) == MapPut(m, id, Add32(MapGet(m, id), quantity))

\* productStockUpdates[product.Id] -= currentItem.Quantity
Deduct(m, id, quantity) == MapPut(m, id, Add32(MapGet(m, id), -quantity))

\* The locked section that ends the goroutine: it records its error, or adds
\* its item to totalAmount, processedItems and productStockUpdates; then
\* mu.Unlock() and the deferred wg.Done().
Record(c, t) ==
  /\ task[c][t] = "record"
  /\ mu[c] = t
  /\ LET r    == resp[c][t]
         item == requestedItems(c)[t]
         e    == TaskError(r, item, t)
     IN IF HasError(e)
          THEN /\ firstError' = [firstError EXCEPT ![c] = SetFirstError(@, e)]
               /\ UNCHANGED <<totalAmount, processedItems, productStockUpdates>>
          ELSE /\ totalAmount' = [totalAmount EXCEPT ![c] =
                                    AddTotal(@, r.Price, item.Quantity)]
               /\ processedItems' = [processedItems EXCEPT ![c] =
                    Append(@, [ID |-> <<>>, OrderID |-> "", ProductID |-> r.Id,
                               Quantity |-> item.Quantity,
                               PriceAtPurchase |-> r.Price, CreatedAt |-> 0])]
               /\ productStockUpdates' = [productStockUpdates EXCEPT ![c] =
                                            Deduct(@, r.Id, item.Quantity)]
               /\ UNCHANGED firstError
  /\ mu' = [mu EXCEPT ![c] = 0]
  /\ task' = [task EXCEPT ![c][t] = "done"]
  /\ wg' = [wg EXCEPT ![c] = WgDone(@)]
  /\ UNCHANGED <<req, pc, next, resp, ranged, order, ri, tx, ret>>
  /\ UNCHANGED <<stock, storeVars, logVars>>
  /\ UNCHANGED sideVars

\* A variant that goes on to the commit phase whatever the goroutines found.
JoinErrorUnchecked(fe, nProcessed, nRequested) == NilErr

\* What follows wg.Wait(): the error to return, NilErr to go on to the
\* commit phase.
JoinError(fe, nProcessed, nRequested) ==
  IF HasError(fe) THEN fe.kind
  ELSE IF nProcessed # nRequested THEN ErrUntyped
  ELSE NilErr

\* The launch loop has ended, wg.Wait() returns, and the two checks after it.
Join(c) ==
  /\ pc[c] = "launch"
  /\ next[c] > Len(requestedItems(c))
  /\ wg[c] = 0
  /\ LET e == JoinError(firstError[c], Len(processedItems[c]),
                        Len(requestedItems(c)))
     IN IF e # NilErr
          THEN ReturnErr(c, e)
          ELSE /\ pc' = [pc EXCEPT ![c] = "commit"]
               /\ UNCHANGED ret
  /\ UNCHANGED <<req, next, wg, mu, task, resp, totalAmount, processedItems,
                 firstError, productStockUpdates, ranged, order, ri, tx>>
  /\ UNCHANGED <<stock, storeVars, logVars>>
  /\ UNCHANGED sideVars

\* A variant that logs the UpdateStock error and carries on.
CommitErrorIgnored(code) == NilErr

\* What an UpdateStock error makes of the call: the error to return, NilErr
\* to go on with the next product.
CommitError(code) == IF code # "OK" THEN ErrProductStockUpdateFailed ELSE NilErr

\* 3. One iteration of `for prodID, qtyChange := range productStockUpdates`:
\* Go visits each key of the map once, in no particular order.
CommitStock(c) ==
  /\ pc[c] = "commit"
  /\ \E prodID \in (DOMAIN productStockUpdates[c]) \ ranged[c], down \in BOOLEAN :
       /\ (~ctxDone[c] /\ prodID \in DOMAIN rowLock) => CanLock(rowLock[prodID])
       /\ LET qtyChange == productStockUpdates[c][prodID]
              r == OnCtx(ctxDone[c],
                         IF ctxDone[c] THEN [code |-> "", stock |-> stock]
                         ELSE UpdateStock(stock, prodID, qtyChange, down))
              e == CommitError(r.code)
          IN /\ stock' = r.stock
             /\ stockCalls' = [stockCalls EXCEPT ![c] =
                  Append(@, [ProductId |-> prodID, QuantityChange |-> qtyChange,
                             code |-> r.code])]
             /\ IF e # NilErr
                  THEN ReturnErr(c, e) /\ UNCHANGED ranged
                  ELSE /\ ranged' = [ranged EXCEPT ![c] = @ \cup {prodID}]
                       /\ UNCHANGED <<pc, ret>>
  /\ UNCHANGED <<req, next, wg, mu, task, resp, totalAmount, processedItems,
                 firstError, productStockUpdates, order, ri, tx>>
  /\ UNCHANGED <<storeVars, userCalls, productCalls, createCalls>>
  /\ UNCHANGED sideVars

\* ------------------------------------------ OrderRepository.CreateOrder
\* tx.Commit(): the pending rows become rows of the table.
Commit(table, pending) == table \cup pending

\* A variant without a transaction: every INSERT is kept as it is made.
RollbackKeepsRows(table, pending) == table \cup pending

\* tx.Rollback(), deferred: the pending rows are dropped.
Rollback(table, pending) == table

\* The rows the repository inserts.
OrderRow(o) == [id |-> o.ID, user_id |-> o.UserID,
                total_amount |-> o.TotalAmount, status |-> o.Status]

ItemRow(it) == [id |-> it.ID, order_id |-> it.OrderID,
                product_id |-> it.ProductID, quantity |-> it.Quantity,
                price_at_purchase |-> it.PriceAtPurchase,
                created_at |-> it.CreatedAt]

\* return nil, err out of the repository, and `return nil, err` of the
\* service after it: the deferred Rollback drops what the transaction wrote.
RepoFail(c) ==
  /\ orders' = Rollback(orders, tx[c].orders)
  /\ order_items' = Rollback(order_items, tx[c].items)
  /\ tx' = [tx EXCEPT ![c] = NoTx]
  /\ ReturnErr(c, ErrDB)

\* 4. The range loop has ended: the order is built and s.repo.CreateOrder
\* begins its transaction and assigns the order its identifier (uuid.New():
\* a value no other order has, here the number of the call).
RepoBegin(c) ==
  /\ pc[c] = "commit"
  /\ ranged[c] = DOMAIN productStockUpdates[c]
  /\ createCalls' = [createCalls EXCEPT ![c] = @ + 1]
  /\ \E fail \in StoreFails(ctxDone[c]) :
       IF fail
         THEN /\ order' = [order EXCEPT ![c] =
                   <<[ID |-> "", UserID |-> req[c].userID,
                      Items |-> processedItems[c],
                      TotalAmount |-> totalAmount[c], Status |-> StatusPending]>>]
              /\ ReturnErr(c, ErrDB)
              /\ UNCHANGED tx
         ELSE /\ order' = [order EXCEPT ![c] =
                   <<[ID |-> c, UserID |-> req[c].userID,
                      Items |-> processedItems[c],
                      TotalAmount |-> totalAmount[c], Status |-> StatusPending]>>]
              /\ tx' = [tx EXCEPT ![c] = [NoTx EXCEPT !.open = TRUE]]
              /\ pc' = [pc EXCEPT ![c] = "insertOrder"]
              /\ UNCHANGED ret
  /\ UNCHANGED <<req, next, wg, mu, task, resp, totalAmount, processedItems,
                 firstError, productStockUpdates, ranged, ri>>
  /\ UNCHANGED <<stock, storeVars, userCalls, productCalls, stockCalls>>
  /\ UNCHANGED sideVars

\* INSERT INTO orders
RepoInsertOrder(c) ==
  /\ pc[c] = "insertOrder"
  /\ \E fail \in StoreFails(ctxDone[c]) :
       IF fail
         THEN RepoFail(c)
         ELSE /\ tx' = [tx EXCEPT ![c].orders = @ \cup {OrderRow(order[c][1])}]
              /\ pc' = [pc EXCEPT ![c] = "insertItems"]
              /\ UNCHANGED <<ret, storeVars>>
  /\ UNCHANGED <<req, next, wg, mu, task, resp, totalAmount, processedItems,
                 firstError, productStockUpdates, ranged, order, ri>>
  /\ UNCHANGED <<stock, logVars>>
  /\ UNCHANGED sideVars

\* One iteration of `for i := range order.Items`: INSERT INTO order_items.
\* CreatedAt is time.Now() of the iteration; a database round trip lies
\* between two iterations, so the i-th item of an order has the i-th time.
RepoInsertItem(c) ==
  /\ pc[c] = "insertItems"
  /\ ri[c] <= Len(order[c][1].Items)
  /\ LET i  == ri[c]
         it == [order[c][1].Items[i] EXCEPT !.ID = <<c, i>>,
                                            !.OrderID = order[c][1].ID,
                                            !.CreatedAt = i]
     IN /\ order' = [order EXCEPT ![c][1].Items[i] = it]
        /\ \E fail \in StoreFails(ctxDone[c]) :
             IF fail
               THEN RepoFail(c) /\ UNCHANGED ri
               ELSE /\ tx' = [tx EXCEPT ![c].items = @ \cup {ItemRow(it)}]
                    /\ ri' = [ri EXCEPT ![c] = @ + 1]
                    /\ UNCHANGED <<pc, ret, storeVars>>
  /\ UNCHANGED <<req, next, wg, mu, task, resp, totalAmount, processedItems,
                 firstError, productStockUpdates, ranged>>
  /\ UNCHANGED <<stock, logVars>>
  /\ UNCHANGED sideVars

\* tx.Commit(), `return order, nil`, and `return createdOrder, nil`
RepoCommit(c) ==
  /\ pc[c] = "insertItems"
  /\ ri[c] > Len(order[c][1].Items)
  /\ \E fail \in StoreFails(ctxDone[c]) :
       IF fail
         THEN RepoFail(c)
         ELSE /\ orders' = Commit(orders, tx[c].orders)
              /\ order_items' = Commit(order_items, tx[c].items)
              /\ tx' = [tx EXCEPT ![c] = NoTx]
              /\ pc' = [pc EXCEPT ![c] = "done"]
              /\ ret' = [ret EXCEPT ![c] =
                   [returned |-> TRUE, order |-> order[c], err |-> NilErr]]
  /\ UNCHANGED <<req, next, wg, mu, task, resp, totalAmount, processedItems,
                 firstError, productStockUpdates, ranged, order, ri>>
  /\ UNCHANGED <<stock, logVars>>
  /\ UNCHANGED sideVars

\* ------------------------------------------------------------ specification
Next ==
  \E c \in Calls :
    \/ Validate(c)
    \/ GetUser(c)
    \/ Launch(c)
    \/ Join(c)
    \/ CommitStock(c)
    \/ RepoBegin(c)
    \/ RepoInsertOrder(c)
    \/ RepoInsertItem(c)
    \/ RepoCommit(c)
    \/ \E t \in ItemIdx :
         \/ Lock(c, t)
         \/ CheckFirstError(c, t)
         \/ FetchProduct(c, t)
         \/ Record(c, t)

Spec == Init /\ [][Next]_vars

\* The steps of the goroutine that runs CreateOrder for call c, and the steps
\* of the goroutine it starts for item t.
MainStep(c) ==
  \/ Validate(c)
  \/ GetUser(c)
  \/ Launch(c)
  \/ Join(c)
  \/ CommitStock(c)
  \/ RepoBegin(c)
  \/ RepoInsertOrder(c)
  \/ RepoInsertItem(c)
  \/ RepoCommit(c)

TaskStep(c, t) ==
  \/ Lock(c, t)
  \/ CheckFirstError(c, t)
  \/ FetchProduct(c, t)
  \/ Record(c, t)

\* The Go scheduler runs every goroutine that can run, and every remote and
\* store call returns: a goroutine whose next step stays possible takes it.
\* A goroutine waiting in mu.Lock() can run whenever the mutex is free.
Fairness ==
  \A c \in Calls :
    /\ WF_vars(MainStep(c))
    /\ \A t \in ItemIdx : WF_vars(TaskStep(c, t))

SpecLive == Init /\ [][Next]_vars /\ Fairness

\* The caller cancels the ctx it gave to CreateOrder (or its deadline
\* passes), at any time after the call has begun.
Cancel(c) ==
  /\ pc[c] # "idle"
  /\ ~ctxDone[c]
  /\ ctxDone' = [ctxDone EXCEPT ![c] = TRUE]
  /\ UNCHANGED <<callVars, stock, storeVars, logVars, rowLock, cl, rd, users, uc>>

\* One CreateOrder call whose caller may cancel it.
NextCancel ==
  \/ Next
  \/ \E c \in Calls : Cancel(c)

SpecCancel == Init /\ [][NextCancel]_vars

\* Two CreateOrder calls running at the same time in the order service (one
\* handler goroutine each), on the same catalog and the same order store.
PairRequests ==
  { [userID |-> "u1", items |-> <<Item("P2", 1)>>],
    [userID |-> "u1", items |-> <<Item("P1", 2), Item("P2", 1)>>] }

InitPair ==
  \E r1, r2 \in PairRequests :
    InitWith(Calls, [c \in Calls |-> IF c = "c1" THEN r1 ELSE r2])

SpecPair == InitPair /\ [][Next]_vars

\* ------------------------------------- the product service, step by step
\* The arguments of the calls the clients make.
StockTargets  == {"P1", "P2", "PX", ""}
StockDeltas   == {-3, -2, 2}
ProductNames  == {"", "n"}
PriceInputs   == {-1, 0}
StockInputs   == {-1, 0, 3}
UpdateTargets == {"P1", "PX", ""}

\* CHECK (stock_quantity >= 0) of the products table
CheckStockQuantity(v) == v >= 0

\* The handler answers client a.
Answer(a, call, code, result) ==
  cl' = [cl EXCEPT ![a] = [call EXCEPT !.pc = "done", !.code = code,
                                       !.result = result]]

\* ProductGRPCServer.UpdateStock down to the SELECT ... FOR UPDATE of
\* ProductRepository.UpdateStock: the transaction holds the row from here on.
StockSelect(a) ==
  /\ cl[a].pc = "idle"
  /\ \E productID \in StockTargets, quantityChange \in StockDeltas,
        down \in BOOLEAN :
       LET call == [NoClient EXCEPT !.op = "UpdateStock",
                                    !.productID = productID,
                                    !.arg = quantityChange]
       IN IF productID = ""
            THEN Answer(a, call, "InvalidArgument", 0) /\ UNCHANGED rowLock
          ELSE IF down
            THEN Answer(a, call, "Internal", 0) /\ UNCHANGED rowLock
          ELSE IF productID \notin DOMAIN stock
            THEN Answer(a, call, "NotFound", 0) /\ UNCHANGED rowLock
          ELSE /\ CanLock(rowLock[productID])
               /\ rowLock' = [rowLock EXCEPT ![productID] = a]
               /\ cl' = [cl EXCEPT ![a] =
                    [call EXCEPT !.pc = "locked", !.cur = stock[productID]]]
  /\ UNCHANGED <<callVars, ctxDone, users, uc, stock, storeVars, logVars, rd>>

\* The rest of ProductRepository.UpdateStock: the check of newStock, the
\* UPDATE and tx.Commit(), or the deferred tx.Rollback(); either ends the
\* transaction and frees the row.
StockUpdate(a) ==
  /\ cl[a].pc = "locked"
  /\ LET p == cl[a].productID
         newStock == Add32(cl[a].cur, cl[a].arg)
     IN /\ rowLock' = [rowLock EXCEPT ![p] = IF @ = a THEN "" ELSE @]
        /\ IF StockRejected(newStock)
             THEN Answer(a, cl[a], "FailedPrecondition", 0) /\ UNCHANGED stock
             ELSE \E fail \in BOOLEAN :
                    IF fail \/ ~CheckStockQuantity(newStock)
                      THEN Answer(a, cl[a], "Internal", 0) /\ UNCHANGED stock
                      ELSE /\ stock' = [stock EXCEPT ![p] = newStock]
                           /\ Answer(a, cl[a], "OK", newStock)
  /\ UNCHANGED <<callVars, ctxDone, users, uc, storeVars, logVars, rd>>

\* A variant of the service's check that does not look at the stock.
InvalidProductDataNoStock(name, price, stockQuantity) == name = "" \/ price < 0

\* name == "" || price < 0 || stockQuantity < 0
InvalidProductData(name, price, stockQuantity) ==
  name = "" \/ price < 0 \/ stockQuantity < 0

\* ProductGRPCServer.CreateProduct over ProductService.CreateProduct and
\* ProductRepository.CreateProduct: one INSERT with a new uuid.
CreateProduct(a) ==
  /\ cl[a].pc = "idle"
  /\ \E name \in ProductNames, price \in PriceInputs,
        stockQuantity \in StockInputs, fail \in BOOLEAN :
       LET call == [NoClient EXCEPT !.op = "CreateProduct", !.productID = a,
                                    !.arg = stockQuantity]
       IN IF InvalidProductData(name, price, stockQuantity)
            THEN Answer(a, call, "InvalidArgument", 0) /\ UNCHANGED stock
          ELSE IF fail \/ ~CheckStockQuantity(stockQuantity)
            THEN Answer(a, call, "Internal", 0) /\ UNCHANGED stock
          ELSE /\ stock' = MapPut(stock, a, stockQuantity)
               /\ Answer(a, call, "OK", stockQuantity)
  /\ UNCHANGED <<callVars, ctxDone, users, uc, storeVars, logVars, rowLock, rd>>

\* ProductGRPCServer.UpdateProduct over ProductService.UpdateProduct, down to
\* its GetProductByID.  (The price a valid call gives is the product's.)
UpdateProductRead(a) ==
  /\ cl[a].pc = "idle"
  /\ \E id \in UpdateTargets, name \in ProductNames, price \in PriceInputs,
        stockQuantity \in StockInputs, down \in BOOLEAN :
       LET call == [NoClient EXCEPT !.op = "UpdateProduct", !.productID = id,
                                    !.arg = stockQuantity]
       IN IF id = "" \/ InvalidProductData(name, price, stockQuantity)
            THEN Answer(a, call, "InvalidArgument", 0)
          ELSE IF down
            THEN Answer(a, call, "Internal", 0)
          ELSE IF id \notin DOMAIN stock
            THEN Answer(a, call, "NotFound", 0)
          ELSE cl' = [cl EXCEPT ![a] =
                 [call EXCEPT !.pc = "read", !.cur = stock[id]]]
  /\ UNCHANGED <<callVars, ctxDone, users, uc, stock, storeVars, logVars, rowLock, rd>>

\* The UPDATE of ProductRepository.UpdateProduct: it writes the stock the
\* caller gave, whatever the row holds by now.
UpdateProductWrite(a) ==
  /\ cl[a].pc = "read"
  /\ CanLock(rowLock[cl[a].productID])
  /\ \E fail \in BOOLEAN :
       IF fail \/ ~CheckStockQuantity(cl[a].arg)
         THEN Answer(a, cl[a], "Internal", 0) /\ UNCHANGED stock
         ELSE /\ stock' = [stock EXCEPT ![cl[a].productID] = cl[a].arg]
              /\ Answer(a, cl[a], "OK", cl[a].arg)
  /\ UNCHANGED <<callVars, ctxDone, users, uc, storeVars, logVars, rowLock, rd>>

\* ------------------------------------------- OrderService.GetOrderByID
ErrOrderNotFound == "ErrOrderNotFound"

\* The ids the GetOrderByID calls ask for.
OrderIDs == {"", "c1", "c9"}

RECURSIVE OrderByCreatedAt(_)
\* ORDER BY created_at ASC
OrderByCreatedAt(rows) ==
  IF rows = {} THEN <<>>
  ELSE LET first == CHOOSE x \in rows :
                      \A y \in rows : x.created_at <= y.created_at
       IN <<first>> \o OrderByCreatedAt(rows \ {first})

\* A variant without ORDER BY: the rows come as the scan meets them, and a
\* scan starts where the one before it stopped.
SelectItemsUnordered(table, id) ==
  LET s == OrderByCreatedAt({it \in table : it.order_id = id})
  IN IF \E g \in Readers : rd[g].pc = "done"
       THEN [i \in 1..Len(s) |-> s[Len(s) + 1 - i]]
       ELSE s

\* SELECT ... FROM order_items WHERE order_id = $1 ORDER BY created_at ASC
SelectItems(table, id) ==
  OrderByCreatedAt({it \in table : it.order_id = id})

\* rows.Scan into a model.OrderItem{OrderID: order.ID}
ScanItem(row, orderID) ==
  [ID |-> row.id, OrderID |-> orderID, ProductID |-> row.product_id,
   Quantity |-> row.quantity, PriceAtPurchase |-> row.price_at_purchase,
   CreatedAt |-> row.created_at]

\* The number of orders committed so far: every write to the store adds one.
StoreVersion == Cardinality(orders)

\* OrderService.GetOrderByID down to the first query of
\* OrderRepository.GetOrderByID, SELECT ... FROM orders WHERE id = $1.
\* (A query the database fails is handed back as its error; the model
\* leaves it out.)
ReadOrder(g) ==
  /\ rd[g].pc = "idle"
  /\ \E id \in OrderIDs :
       LET call == [NoReader EXCEPT !.id = id, !.before = StoreVersion,
                                    !.after = StoreVersion]
           rows == {o \in orders : o.id = id}
       IN IF id = ""
            THEN rd' = [rd EXCEPT ![g] =
                   [call EXCEPT !.pc = "done", !.err = ErrInvalidOrderData]]
          ELSE IF rows = {}
            THEN rd' = [rd EXCEPT ![g] =
                   [call EXCEPT !.pc = "done", !.err = ErrOrderNotFound]]
          ELSE LET o == CHOOSE x \in rows : TRUE
               IN rd' = [rd EXCEPT ![g] =
                    [call EXCEPT !.pc = "items", !.order =
                       <<[ID |-> o.id, UserID |-> o.user_id, Items |-> <<>>,
                          TotalAmount |-> o.total_amount,
                          Status |-> o.status]>>]]
  /\ UNCHANGED <<callVars, ctxDone, users, uc, stock, storeVars, logVars, rowLock, cl>>

\* The second query, the scan of its rows, and `return order, nil`.
ReadItems(g) ==
  /\ rd[g].pc = "items"
  /\ LET rows == SelectItems(order_items, rd[g].id)
     IN rd' = [rd EXCEPT ![g].pc = "done", ![g].after = StoreVersion,
                         ![g].order[1].Items =
                           [i \in 1..Len(rows) |->
                              ScanItem(rows[i], rd[g].order[1].ID)]]
  /\ UNCHANGED <<callVars, ctxDone, users, uc, stock, storeVars, logVars, rowLock, cl>>

\* One CreateOrder call and GetOrderByID calls at any time around it.
InitReads ==
  \E r \in PairRequests :
    InitWith({"c1"}, [c \in Calls |-> IF c = "c1" THEN r ELSE NoRequest])

NextReads ==
  \/ Next
  \/ \E g \in Readers :
       \/ ReadOrder(g)
       \/ ReadItems(g)

SpecReads == InitReads /\ [][NextReads]_vars

\* The product service alone, no order being created.
InitCatalog == InitWith({}, [c \in Calls |-> NoRequest])

\* Concurrent UpdateStock calls.
NextStock ==
  \E a \in Clients :
    \/ StockSelect(a)
    \/ StockUpdate(a)

SpecStock == InitCatalog /\ [][NextStock]_vars

\* Concurrent UpdateStock, CreateProduct and UpdateProduct calls.
NextCatalog ==
  \E a \in Clients :
    \/ StockSelect(a)
    \/ StockUpdate(a)
    \/ CreateProduct(a)
    \/ UpdateProductRead(a)
    \/ UpdateProductWrite(a)

SpecCatalog == InitCatalog /\ [][NextCatalog]_vars

\* ------------------------------------------------------- the user service
\* UserRepository.GetUserByEmail: the row and a nil error, or no row and
\* ErrUserNotFound (sql.ErrNoRows), or the database's error.
GetUserByEmail(table, email, down) ==
  IF down THEN [user |-> <<>>, err |-> ErrDB]
  ELSE IF \E u \in table : u.email = email
    THEN [user |-> <<CHOOSE u \in table : u.email = email>>, err |-> NilErr]
    ELSE [user |-> <<>>, err |-> ErrUserNotFound]

\* username UNIQUE NOT NULL, email UNIQUE NOT NULL, id PRIMARY KEY
UniqueViolation(table, row) ==
  \E u \in table :
    u.id = row.id \/ u.username = row.username \/ u.email = row.email

\* The answer of a call of the user service.
UserAnswer(k, call, user, token, err) ==
  uc' = [uc EXCEPT ![k] = [call EXCEPT !.pc = "done", !.user = user,
                                       !.token = token, !.err = err]]

\* A variant that never takes the email for registered.
AlreadyExistsNever(err) == FALSE

\* if err == nil { // User found, so already exists
AlreadyExists(err) == err = NilErr

\* UserService.CreateUser up to the answer of GetUserByEmail: the call
\* returns ErrUserAlreadyExists when a row came back, the error when it is
\* not ErrUserNotFound, and goes on otherwise.
CreateUserLookup(k) ==
  /\ uc[k].pc = "idle"
  /\ \E username \in Usernames, email \in Emails, password \in Passwords,
        down \in BOOLEAN :
       LET call == [NoUserCall EXCEPT !.op = "create", !.username = username,
                                      !.email = email, !.password = password]
           r == GetUserByEmail(users, email, down)
       IN IF AlreadyExists(r.err)
            THEN UserAnswer(k, call, <<>>, <<>>, ErrUserAlreadyExists)
          ELSE IF r.err # ErrUserNotFound
            THEN UserAnswer(k, call, <<>>, <<>>, r.err)
          ELSE uc' = [uc EXCEPT ![k] = [call EXCEPT !.pc = "insert"]]
  /\ UNCHANGED <<callVars, stock, storeVars, logVars, rowLock, cl, rd, ctxDone,
                 users>>

\* The rest of UserService.CreateUser: HashPassword, and
\* UserRepository.CreateUser with its one INSERT, whose error is returned as
\* the database gave it.
CreateUserInsert(k) ==
  /\ uc[k].pc = "insert"
  /\ \E hashFails \in BOOLEAN, down \in BOOLEAN :
       LET row == [id |-> k, username |-> uc[k].username, email |-> uc[k].email,
                   password_hash |-> HashPassword(uc[k].password, k)]
           called == [uc[k] EXCEPT !.creates = @ + 1]
       IN IF hashFails
            THEN UserAnswer(k, uc[k], <<>>, <<>>, ErrPassword) /\ UNCHANGED users
          ELSE IF down
            THEN UserAnswer(k, called, <<>>, <<>>, ErrDB) /\ UNCHANGED users
          ELSE IF UniqueViolation(users, row)
            THEN UserAnswer(k, called, <<>>, <<>>, ErrUniqueViolation)
                 /\ UNCHANGED users
          ELSE /\ users' = users \cup {row}
               /\ UserAnswer(k, called, <<row>>, <<>>, NilErr)
  /\ UNCHANGED <<callVars, stock, storeVars, logVars, rowLock, cl, rd, ctxDone>>

\* A variant that tells the caller when the email is not registered.
LoginLookupErrorRaw(err) == err

\* if err == ErrUserNotFound { return nil, "", ErrInvalidCredentials }
LoginLookupError(err) ==
  IF err = ErrUserNotFound THEN ErrInvalidCredentials ELSE err

\* token := "mock-jwt-token-for-" + user.ID
Token(id) == <<"mock-jwt-token-for-", id>>

\* UserService.LoginUser
LoginUser(k) ==
  /\ uc[k].pc = "idle"
  /\ \E email \in Emails, password \in Passwords, down \in BOOLEAN :
       LET call == [NoUserCall EXCEPT !.op = "login", !.email = email,
                                      !.password = password]
           r == GetUserByEmail(users, email, down)
       IN IF r.err # NilErr
            THEN UserAnswer(k, call, <<>>, <<>>, LoginLookupError(r.err))
          ELSE IF ~CheckPasswordHash(password, r.user[1].password_hash)
            THEN UserAnswer(k, call, <<>>, <<>>, ErrInvalidCredentials)
          ELSE UserAnswer(k, call, r.user, Token(r.user[1].id), NilErr)
  /\ UNCHANGED <<callVars, stock, storeVars, logVars, rowLock, cl, rd, ctxDone,
                 users>>

\* The user service alone, with callers running at the same time.
NextUsers ==
  \E k \in Callers :
    \/ CreateUserLookup(k)
    \/ CreateUserInsert(k)
    \/ LoginUser(k)

SpecUsers == InitCatalog /\ [][NextUsers]_vars

\* ================================================================== claims
Returned(c)  == ret[c].returned
Succeeded(c) == ret[c].returned /\ ret[c].err = NilErr
FailedWith(c, e) == ret[c].returned /\ ret[c].err = e

\* Rows of the two tables that belong to the order of call c.
RowsOf(c) == {o \in orders : o.id = c} \cup {it \in order_items : it.order_id = c}

\* No store write of call c: no Create call, no transaction, no row.
NoStoreWrite(c) == createCalls[c] = 0 /\ tx[c] = NoTx /\ RowsOf(c) = {}

RECURSIVE ItemsTotal(_)
\* The sum over items of quantity x price_at_purchase, in sequence order.
ItemsTotal(items) ==
  IF items = <<>> THEN 0
  ELSE ItemsTotal(SubSeq(items, 1, Len(items) - 1))
       + items[Len(items)].Quantity * items[Len(items)].PriceAtPurchase

\* C1: in every state the running total of a call is the sum of quantity x
\* price_at_purchase over the items processed so far, each price being the
\* price its task read; and the order a successful call returns carries
\* that total over that order's items.
C1_TotalIsSumOfItems ==
  \A c \in Calls :
    /\ totalAmount[c] = ItemsTotal(processedItems[c])
    /\ \A i \in 1..Len(processedItems[c]) :
         \E t \in 1..Len(requestedItems(c)) :
           /\ task[c][t] = "done"
           /\ resp[c][t].code = "OK"
           /\ resp[c][t].Id = processedItems[c][i].ProductID
           /\ resp[c][t].Price = processedItems[c][i].PriceAtPurchase
           /\ requestedItems(c)[t].Quantity = processedItems[c][i].Quantity
    /\ Succeeded(c) =>
         /\ Len(ret[c].order) = 1
         /\ ret[c].order[1].TotalAmount = ItemsTotal(ret[c].order[1].Items)
         /\ Len(ret[c].order[1].Items) = Len(processedItems[c])
         /\ \A i \in 1..Len(processedItems[c]) :
              /\ ret[c].order[1].Items[i].Quantity = processedItems[c][i].Quantity
              /\ ret[c].order[1].Items[i].PriceAtPurchase
                   = processedItems[c][i].PriceAtPurchase

\* A call has succeeded with three items of two products, total 25.
C1_Witness ==
  /\ Succeeded("c1")
  /\ Len(ret["c1"].order[1].Items) = 3
  /\ ret["c1"].order[1].TotalAmount = 25

\* C2: when GetUser answers anything but OK (NotFound, or a failure of the
\* transport), the call has failed with ErrUserValidationFailed and has
\* issued no GetProduct call, no UpdateStock call and no store write; and
\* any catalog call or store write of a call comes after its one GetUser
\* call has answered OK.
C2_UserValidationPrecedesCatalog ==
  \A c \in Calls :
    /\ (userCalls[c] # <<>> /\ userCalls[c][1] # "OK") =>
         /\ FailedWith(c, ErrUserValidationFailed)
         /\ ret[c].order = <<>>
         /\ productCalls[c] = 0
         /\ stockCalls[c] = <<>>
         /\ NoStoreWrite(c)
         /\ \A t \in ItemIdx : task[c][t] = "idle"
    /\ (req[c].userID \notin Users /\ Returned(c)) =>
         ret[c].err \in {ErrInvalidOrderData, ErrUserValidationFailed}
    /\ (productCalls[c] > 0 \/ stockCalls[c] # <<>> \/ ~NoStoreWrite(c)
        \/ \E t \in ItemIdx : task[c][t] # "idle") =>
         userCalls[c] = <<"OK">>

\* An unknown user with a well-formed item list has been turned away.
C2_Witness ==
  /\ userCalls["c1"] = <<"NotFound">>
  /\ FailedWith("c1", ErrUserValidationFailed)
  /\ Len(requestedItems("c1")) = 2
  /\ \A i \in 1..2 : requestedItems("c1")[i] = Item("P1", 2)

\* The input violations of the contract, on the arguments of a call.
EmptyRequest(r)   == r.userID = "" \/ Len(r.items) = 0
HasEmptyProduct(r) == \E i \in 1..Len(r.items) : r.items[i].ProductID = ""
HasBadQuantity(r)  == \E i \in 1..Len(r.items) : r.items[i].Quantity <= 0
InputViolation(r) == EmptyRequest(r) \/ HasEmptyProduct(r) \/ HasBadQuantity(r)

\* The call has issued no remote call and no store write.
NoRemoteCall(c) ==
  /\ userCalls[c] = <<>>
  /\ productCalls[c] = 0
  /\ stockCalls[c] = <<>>
  /\ NoStoreWrite(c)

\* C3: a call whose arguments violate an input constraint (empty userID,
\* empty item list, an item with an empty product identifier or a quantity
\* <= 0) issues no GetUser, GetProduct, UpdateStock or store write, and the
\* error it returns is ErrInvalidOrderData.
C3_InvalidInputBeforeRemoteCalls ==
  \A c \in Calls :
    (pc[c] # "idle" /\ InputViolation(req[c])) =>
      /\ NoRemoteCall(c)
      /\ Returned(c) => ret[c].err = ErrInvalidOrderData

\* C4: once a goroutine of a call has recorded a failure in firstError, the
\* call issues no UpdateStock call and no store write: it returns that
\* error after the join, and with no other call committing, the stock and
\* the two tables are as they were before the call.
C4_TaskFailureLeavesNoEffect ==
  \A c \in Calls :
    HasError(firstError[c]) =>
      /\ stockCalls[c] = <<>>
      /\ NoStoreWrite(c)
      /\ pc[c] \in {"launch", "done"}
      /\ (Returned(c) /\ next[c] > Len(requestedItems(c))) =>
           ret[c].err = firstError[c].kind /\ ret[c].order = <<>>
      /\ (\A d \in Calls \ {c} : stockCalls[d] = <<>>) => stock = InitStock

\* A call of three items has failed on one of them after the other two were
\* processed.
C4_Witness ==
  /\ Returned("c1")
  /\ HasError(firstError["c1"])
  /\ ret["c1"].err = firstError["c1"].kind
  /\ Len(processedItems["c1"]) = 2

\* Item i of the request names a product the catalog does not have.
MissingProduct(c, i) == requestedItems(c)[i].ProductID \notin DOMAIN stock

\* Item i of the request asks for more than its product's stock.
OverStock(c, i) ==
  /\ requestedItems(c)[i].ProductID \in DOMAIN stock
  /\ stock[requestedItems(c)[i].ProductID] < requestedItems(c)[i].Quantity

\* The request of the call is well-formed: no input violation.
WellFormed(c) == ~InputViolation(req[c])

\* C5 as stated: a validated, well-formed call with an item whose product
\* the catalog does not have fails with ErrProductFetchFailed, whatever the
\* other items are, and issues no UpdateStock call.
C5_MissingProductAlwaysFetchFailed ==
  \A c \in Calls :
    (WellFormed(c) /\ userCalls[c] = <<"OK">>
       /\ \E i \in 1..Len(requestedItems(c)) : MissingProduct(c, i)) =>
      /\ stockCalls[c] = <<>>
      /\ Returned(c) => ret[c].err = ErrProductFetchFailed

\* C5 as amended: a validated call with an item whose product the catalog
\* does not have issues no UpdateStock call and no store write, and fails:
\* with ErrProductFetchFailed, or with the failure of another item that
\* came first -- ErrInsufficientStockForOrder of an item that asks for more
\* than its stock, ErrInvalidOrderData of an item with a quantity <= 0.
C5_MissingProductFails ==
  \A c \in Calls :
    (userCalls[c] = <<"OK">>
       /\ \E i \in 1..Len(requestedItems(c)) : MissingProduct(c, i)) =>
      /\ stockCalls[c] = <<>>
      /\ NoStoreWrite(c)
      /\ Returned(c) =>
           /\ ret[c].order = <<>>
           /\ ret[c].err \in {ErrProductFetchFailed, ErrInsufficientStockForOrder,
                              ErrInvalidOrderData}
           /\ ret[c].err = ErrInsufficientStockForOrder =>
                \E j \in 1..Len(requestedItems(c)) : OverStock(c, j)
           /\ ret[c].err = ErrInvalidOrderData => HasBadQuantity(req[c])

\* A call with an unknown product and an item over its stock has failed with
\* the error of the latter.
C5_Witness ==
  /\ FailedWith("c1", ErrInsufficientStockForOrder)
  /\ \E i \in 1..Len(requestedItems("c1")) : MissingProduct("c1", i)
  /\ productCalls["c1"] = 2

\* The goroutine of item t has read a snapshot whose stock is below the
\* quantity of its item.
SnapshotShort(c, t) ==
  /\ t <= Len(requestedItems(c))
  /\ resp[c][t].code = "OK"
  /\ resp[c][t].StockQuantity < requestedItems(c)[t].Quantity

ItemsOf(c, p) == SelectSeq(requestedItems(c), LAMBDA it : it.ProductID = p)

RECURSIVE Cancels(_, _)
\* d is the negative of the sum of the (positive) quantities of items: adding
\* them to d one by one stays below zero until the last one reaches it.
Cancels(d, items) ==
  IF items = <<>> THEN d = 0
  ELSE IF d >= 0 THEN FALSE
  ELSE Cancels(d + Head(items).Quantity, Tail(items))

\* The UpdateStock calls of call c for product p.
StockCallsFor(c, p) ==
  {k \in 1..Len(stockCalls[c]) : stockCalls[c][k].ProductId = p}

\* The read phase of the call succeeded and so did all its commits: it has
\* gone on to the repository.
AllCommitted(c) == createCalls[c] = 1

\* C7: in a call whose read phase and commits all succeeded, every distinct
\* product of the item list received exactly one UpdateStock call, with a
\* delta that is the negative of the sum of the quantities of all the items
\* naming that product.
C7_OneCommitPerProductSummedDelta ==
  \A c \in Calls :
    AllCommitted(c) =>
      \A i \in 1..Len(requestedItems(c)) :
        LET p == requestedItems(c)[i].ProductID IN
        /\ Cardinality(StockCallsFor(c, p)) = 1
        /\ \A k \in StockCallsFor(c, p) :
             Cancels(stockCalls[c][k].QuantityChange, ItemsOf(c, p))

RECURSIVE ApplyCalls(_, _)
\* The stock table after the successful UpdateStock calls of a log.
ApplyCalls(stk, log) ==
  IF log = <<>> THEN stk
  ELSE LET e == Head(log) IN
       ApplyCalls(IF e.code = "OK"
                    THEN [stk EXCEPT ![e.ProductId] = Add32(@, e.QuantityChange)]
                    ELSE stk,
                  Tail(log))

RECURSIVE ApplyAll(_, _)
\* The stock table after the successful UpdateStock calls of a set of calls.
ApplyAll(stk, S) ==
  IF S = {} THEN stk
  ELSE LET c == CHOOSE x \in S : TRUE IN
       ApplyAll(ApplyCalls(stk, stockCalls[c]), S \ {c})

\* C8: the UpdateStock calls of a call are made in sequence and only the
\* last of them can have failed; when it has, the call has returned
\* ErrProductStockUpdateFailed with no order, has made no repository call and
\* written no row, and makes no further UpdateStock call; no product is
\* called twice (no compensation), so the stock is the initial stock with
\* exactly the successful deltas applied.
C8_CommitFailFastNoRollback ==
  /\ stock = ApplyAll(InitStock, Calls)
  /\ \A c \in Calls :
       LET n == Len(stockCalls[c]) IN
       /\ \A k \in 1..(n - 1) : stockCalls[c][k].code = "OK"
       /\ \A k, l \in 1..n :
            stockCalls[c][k].ProductId = stockCalls[c][l].ProductId => k = l
       /\ (n > 0 /\ stockCalls[c][n].code # "OK") =>
            /\ FailedWith(c, ErrProductStockUpdateFailed)
            /\ ret[c].order = <<>>
            /\ NoStoreWrite(c)
       /\ FailedWith(c, ErrProductStockUpdateFailed) =>
            n > 0 /\ stockCalls[c][n].code # "OK"

\* The second UpdateStock of a call has failed after the first was applied.
C8_Witness ==
  /\ FailedWith("c1", ErrProductStockUpdateFailed)
  /\ Len(stockCalls["c1"]) = 2
  /\ stockCalls["c1"][1].code = "OK"
  /\ stockCalls["c1"][2].code = "FailedPrecondition"
  /\ stock # InitStock

\* C9: every committed order row has exactly the item rows of its order and
\* every committed item row has its order row, in every state, also after an
\* INSERT or the COMMIT has failed; and a call enters the repository's
\* CreateOrder at most once, and only after an UpdateStock call has succeeded
\* for every key of its delta map.
C9_OrderStoredWhole ==
  /\ \A it \in order_items : \E o \in orders : o.id = it.order_id
  /\ \A o \in orders :
       \E c \in Calls :
         /\ o.id = c
         /\ Succeeded(c)
         /\ o = OrderRow(ret[c].order[1])
         /\ {it \in order_items : it.order_id = c}
              = {ItemRow(ret[c].order[1].Items[i]) :
                   i \in 1..Len(ret[c].order[1].Items)}
         /\ Cardinality({it \in order_items : it.order_id = c})
              = Len(requestedItems(c))
  /\ \A c \in Calls :
       /\ createCalls[c] <= 1
       /\ createCalls[c] = 1 =>
            /\ \A k \in 1..Len(stockCalls[c]) : stockCalls[c][k].code = "OK"
            /\ {stockCalls[c][k].ProductId : k \in 1..Len(stockCalls[c])}
                 = DOMAIN productStockUpdates[c]
            /\ productStockUpdates[c] # <<>>
       /\ Succeeded(c) => \E o \in orders : o.id = c

\* The repository has failed after it inserted the order and its first item,
\* and the tables hold nothing.
C9_Witness ==
  /\ FailedWith("c1", ErrDB)
  /\ ri["c1"] = 2
  /\ Len(order["c1"][1].Items) = 3
  /\ orders = {} /\ order_items = {}

\* The failures of the taxonomy; a repository error is the storage error.
TaxonomyErrors ==
  {ErrInvalidOrderData, ErrUserValidationFailed, ErrProductFetchFailed,
   ErrInsufficientStockForOrder, ErrProductStockUpdateFailed, ErrDB}

\* The order is complete: identified, pending, of the requested user, with
\* one identified item per requested item.
CompleteOrder(c, o) ==
  /\ o.ID = c
  /\ o.UserID = req[c].userID
  /\ o.Status = StatusPending
  /\ Len(o.Items) = Len(requestedItems(c))
  /\ \A i \in 1..Len(o.Items) :
       o.Items[i].ID = <<c, i>> /\ o.Items[i].OrderID = c

\* C10: a call that has returned has returned either an order (complete)
\* and a nil error, or no order and one of the six failures of the taxonomy;
\* a call that has not returned has returned nothing.
C10_OrderXorTypedError ==
  \A c \in Calls :
    IF Returned(c)
      THEN \/ /\ ret[c].err = NilErr
              /\ Len(ret[c].order) = 1
              /\ CompleteOrder(c, ret[c].order[1])
           \/ /\ ret[c].err \in TaxonomyErrors
              /\ ret[c].order = <<>>
      ELSE ret[c] = NoRet

\* A call has returned the repository's error after the repository had
\* begun to fill in the order.
C10_Witness ==
  /\ FailedWith("c1", ErrDB)
  /\ order["c1"] # <<>>
  /\ order["c1"][1].ID = "c1"
  /\ ret["c1"].order = <<>>

\* The one-to-one assignments of the items of an order to n requested items.
Bijections(n) == {f \in [1..n -> 1..n] : \A i, j \in 1..n : f[i] = f[j] => i = j}

\* The scenario of the contract: two units of P1 at 10 and one of P2 at 5.
ScenarioItems == <<Item("P1", 2), Item("P2", 1)>>

\* C14: the order a successful call returns is the persisted one (its rows
\* are in the tables), is pending, is of the requested user, has the
\* identifier the store gave it, and has one item per requested item with
\* that item's product, its quantity and the price its task read; for the
\* items [(P1, 2), (P2, 1)] the total is 25 and the UpdateStock calls are
\* exactly two, with deltas -2 for P1 and -1 for P2.
C14_SuccessReturnsPersistedOrder ==
  \A c \in Calls :
    Succeeded(c) =>
      LET o == ret[c].order[1]
          n == Len(requestedItems(c))
      IN /\ o.Status = StatusPending
         /\ o.UserID = req[c].userID
         /\ o.ID = c
         /\ OrderRow(o) \in orders
         /\ Len(o.Items) = n
         /\ \A i \in 1..n : ItemRow(o.Items[i]) \in order_items
         /\ \E f \in Bijections(n) :
              \A i \in 1..n :
                /\ o.Items[i].ProductID = requestedItems(c)[f[i]].ProductID
                /\ o.Items[i].Quantity = requestedItems(c)[f[i]].Quantity
                /\ resp[c][f[i]].code = "OK"
                /\ o.Items[i].PriceAtPurchase = resp[c][f[i]].Price
         /\ requestedItems(c) = ScenarioItems =>
              /\ o.TotalAmount = 25
              /\ Len(stockCalls[c]) = 2
              /\ {<<stockCalls[c][k].ProductId, stockCalls[c][k].QuantityChange>> :
                    k \in 1..2} = {<<"P1", -2>>, <<"P2", -1>>}

\* The scenario has succeeded, the item of P2 processed before that of P1.
C14_Witness ==
  /\ Succeeded("c1")
  /\ requestedItems("c1") = ScenarioItems
  /\ ret["c1"].order[1].Items[1].ProductID = "P2"
  /\ stock["P1"] = 2 /\ stock["P2"] = 0

\* The call has left the fan-out: it is in the commit phase, in the
\* repository, or back with its caller.
PastFanOut(c) == pc[c] \in {"commit", "insertOrder", "insertItems", "done"}

\* C15: a call that launched a task and has gone past the fan-out or has
\* returned has no task still running: all launched tasks have finished.
C15_NoTaskOutlivesFanOut ==
  \A c \in Calls :
    PastFanOut(c) => \A t \in ItemIdx : task[c][t] \in {"idle", "done"}

\* C16: every task that has finished has made its GetProduct call (and, the
\* read having succeeded, its stock comparison, which Record makes on the
\* answer): no task ends without its read because of a sibling's failure.
C16_EveryTaskReadsAndChecks ==
  \A c \in Calls :
    \A t \in ItemIdx :
      task[c][t] = "done" => resp[c][t].code # ""

\* The tasks of the call that have finished with a failure of their own.
FailedTasks(c) ==
  {t \in 1..Len(requestedItems(c)) :
     /\ task[c][t] = "done"
     /\ resp[c][t].code # ""
     /\ HasError(TaskError(resp[c][t], requestedItems(c)[t], t))}

\* C17: firstError, once set, never changes; it is set by the task that
\* holds the lock, to that task's failure; and when several tasks have
\* failed the error the call returns is the recorded one.
C17_FirstErrorWrittenOnceAndReturned ==
  [][\A c \in Calls :
       /\ HasError(firstError[c]) => firstError'[c] = firstError[c]
       /\ firstError'[c] # firstError[c] =>
            /\ mu[c] # 0
            /\ firstError'[c] =
                 TaskError(resp[c][mu[c]], requestedItems(c)[mu[c]], mu[c])
       /\ (Returned(c)' /\ Cardinality(FailedTasks(c)') >= 2) =>
            ret'[c].err = firstError'[c].kind]_vars

\* C18: a call that has returned the storage error has returned no order,
\* has no open transaction and no row in either table, had an UpdateStock
\* succeed for every key of its delta map, and the stock is the initial stock
\* with those deltas applied: nothing was given back.
C18_StoreFailureKeepsStockCommits ==
  /\ stock = ApplyAll(InitStock, Calls)
  /\ \A c \in Calls :
       FailedWith(c, ErrDB) =>
         /\ ret[c].order = <<>>
         /\ tx[c] = NoTx
         /\ RowsOf(c) = {}
         /\ createCalls[c] = 1
         /\ \A k \in 1..Len(stockCalls[c]) : stockCalls[c][k].code = "OK"
         /\ {stockCalls[c][k].ProductId : k \in 1..Len(stockCalls[c])}
              = DOMAIN productStockUpdates[c]
         /\ Len(stockCalls[c]) = Cardinality(DOMAIN productStockUpdates[c])
         /\ \A p \in DOMAIN productStockUpdates[c] :
              stock[p] = Add32(InitStock[p], productStockUpdates[c][p])

\* The COMMIT of the order has failed after two products were decremented.
C18_Witness ==
  /\ FailedWith("c1", ErrDB)
  /\ ri["c1"] = 3
  /\ Len(stockCalls["c1"]) = 2
  /\ stock["P1"] = 2 /\ stock["P2"] = 0
  /\ orders = {} /\ order_items = {}

\* C20: a call issues GetUser at most once, GetProduct at most once for each
\* requested item, UpdateStock at most once for each distinct product and the
\* repository's CreateOrder at most once, whatever their answers.
C20_NoRetry ==
  \A c \in Calls :
    /\ Len(userCalls[c]) <= 1
    /\ productCalls[c] = Cardinality({t \in ItemIdx : resp[c][t].code # ""})
    /\ productCalls[c] <= Len(requestedItems(c))
    /\ \A k, l \in 1..Len(stockCalls[c]) :
         stockCalls[c][k].ProductId = stockCalls[c][l].ProductId => k = l
    /\ \A k \in 1..Len(stockCalls[c]) :
         \E i \in 1..Len(requestedItems(c)) :
           requestedItems(c)[i].ProductID = stockCalls[c][k].ProductId
    /\ createCalls[c] <= 1

\* An UpdateStock call has failed in the transport and was not made again.
C20_Witness ==
  /\ FailedWith("c1", ErrProductStockUpdateFailed)
  /\ Len(stockCalls["c1"]) = 1
  /\ stockCalls["c1"][1].code = "Internal"
  /\ Len(requestedItems("c1")) = 2
  /\ productCalls["c1"] = 2

\* The UpdateStock call that a step of call c has just logged.
LastStockCall(c) == stockCalls[c][Len(stockCalls[c])]

\* C13: a commit whose delta would take the stock below zero, the stock
\* having dropped since the call read it, leaves the stock as it is and is
\* answered with the catalog's rejection (or fails on its way to the
\* catalog); the call then has failed with
\* ErrProductStockUpdateFailed, has entered no repository call and has no row
\* in the store; and no stock is ever negative.
C13_StaleReadRejectedAtCommit ==
  [][\A c \in Calls :
       /\ \A p \in DOMAIN stock' : stock'[p] >= 0
       /\ Len(stockCalls'[c]) > Len(stockCalls[c]) =>
            LET e == LastStockCall(c)' IN
            (e.ProductId \in DOMAIN stock
               /\ Add32(stock[e.ProductId], e.QuantityChange) < 0) =>
              /\ stock' = stock
              /\ e.code \in {"FailedPrecondition", "Internal"}
              /\ FailedWith(c, ErrProductStockUpdateFailed)'
       /\ (stockCalls'[c] # <<>> /\ LastStockCall(c)'.code # "OK") =>
            /\ FailedWith(c, ErrProductStockUpdateFailed)'
            /\ ret'[c].order = <<>>
            /\ NoStoreWrite(c)'
     ]_vars

\* Both calls read one unit of P2 in stock and asked for it; c1 got it and
\* its order, c2 was turned away at its commit.
C13_Witness ==
  /\ \A c \in Calls : requestedItems(c) = <<Item("P2", 1)>>
  /\ \A c \in Calls : resp[c][1].code = "OK" /\ resp[c][1].StockQuantity = 1
  /\ Succeeded("c1")
  /\ FailedWith("c2", ErrProductStockUpdateFailed)
  /\ stockCalls["c2"] = <<[ProductId |-> "P2", QuantityChange |-> -1,
                           code |-> "FailedPrecondition"]>>
  /\ stock["P2"] = 0
  /\ {o.id : o \in orders} = {"c1"}

\* The clients whose UpdateStock call on product p was answered OK.
Adjusted(p) ==
  {a \in Clients : /\ cl[a].pc = "done" /\ cl[a].op = "UpdateStock"
                   /\ cl[a].productID = p /\ cl[a].code = "OK"}

RECURSIVE SumOfDeltas(_)
\* The sum of the deltas of a set of UpdateStock calls.
SumOfDeltas(S) ==
  IF S = {} THEN 0
  ELSE LET a == CHOOSE x \in S : TRUE IN cl[a].arg + SumOfDeltas(S \ {a})

\* The step answers client a.
Answered(a) == cl[a].pc # "done" /\ cl'[a].pc = "done"

\* C11: under concurrent UpdateStock calls the stock of every product is, in
\* every state, its initial stock plus the deltas of exactly the calls that
\* were answered OK; a call answered OK is answered with the stock its own
\* delta made of the stock that was there when it wrote; a call answered
\* with an error has changed nothing.
C11_UpdateStockAtomic ==
  [][/\ \A p \in ProductIDs :
          stock'[p] = InitStock[p] + SumOfDeltas(Adjusted(p))'
     /\ \A a \in Clients :
          Answered(a) =>
            IF cl'[a].code = "OK"
              THEN /\ cl'[a].result = stock[cl[a].productID] + cl[a].arg
                   /\ stock'[cl[a].productID] = cl'[a].result
              ELSE stock' = stock
    ]_vars

\* Three calls on P1 (stock 4) overlapped: -2 and -2 were applied, the
\* second on what the first had left, and -3 was turned away.
C11_Witness ==
  /\ \A a \in Clients : cl[a].pc = "done" /\ cl[a].productID = "P1"
  /\ cl["a1"].code = "OK" /\ cl["a1"].arg = -2 /\ cl["a1"].result = 2
  /\ cl["a2"].code = "OK" /\ cl["a2"].arg = -2 /\ cl["a2"].result = 0
  /\ cl["a3"].code = "FailedPrecondition" /\ cl["a3"].arg = -3
  /\ stock["P1"] = 0

\* C12: no product has a negative stock in any state; an UpdateStock whose
\* delta would take the stock below zero is answered FailedPrecondition
\* (ErrInsufficientStock) and one for an unknown product NotFound, a
\* CreateProduct or UpdateProduct with a negative stock InvalidArgument
\* (ErrInvalidProductData), and a call answered with an error leaves the
\* stock as it was.
C12_StockNeverNegative ==
  [][/\ \A p \in DOMAIN stock' : stock'[p] >= 0
     /\ \A a \in Clients :
          Answered(a) =>
            /\ cl'[a].code # "OK" => stock' = stock
            /\ (cl[a].pc = "locked"
                  /\ stock[cl[a].productID] + cl[a].arg < 0) =>
                 cl'[a].code = "FailedPrecondition"
            /\ (cl'[a].op = "UpdateStock" /\ cl'[a].productID # ""
                  /\ cl'[a].productID \notin DOMAIN stock) =>
                 cl'[a].code \in {"NotFound", "Internal"}
            /\ (cl'[a].op \in {"CreateProduct", "UpdateProduct"}
                  /\ cl'[a].arg < 0) =>
                 cl'[a].code = "InvalidArgument"
    ]_vars

\* One UpdateStock was turned away for want of stock, one for an unknown
\* product, a CreateProduct for its negative stock, and nothing changed.
C12_Witness ==
  /\ cl["a1"] = [NoClient EXCEPT !.pc = "done", !.op = "UpdateStock",
                                 !.productID = "P2", !.arg = -2, !.cur = 1,
                                 !.code = "FailedPrecondition"]
  /\ cl["a2"] = [NoClient EXCEPT !.pc = "done", !.op = "UpdateStock",
                                 !.productID = "PX", !.arg = -2,
                                 !.code = "NotFound"]
  /\ cl["a3"] = [NoClient EXCEPT !.pc = "done", !.op = "CreateProduct",
                                 !.productID = "a3", !.arg = -1,
                                 !.code = "InvalidArgument"]
  /\ stock = InitStock

\* What GetOrderByID answered.
Result(g) == [order |-> rd[g].order, err |-> rd[g].err]

\* The store was the same from the beginning of call g to its end.
Undisturbed(g) == rd[g].pc = "done" /\ rd[g].before = rd[g].after

RECURSIVE FitsRows(_, _)
\* The quantities of a set of item rows add up to budget at most.
FitsRows(budget, rows) ==
  IF rows = {} THEN budget >= 0
  ELSE LET r == CHOOSE x \in rows : TRUE
       IN IF r.quantity > budget THEN FALSE
          ELSE FitsRows(budget - r.quantity, rows \ {r})

\* C24: for every product, the quantities of the product in the persisted
\* orders add up to at most what the stock has gone down by: its initial
\* stock minus its current stock.
C24_NoOverselling ==
  \A p \in ProductIDs :
    FitsRows(InitStock[p] - stock[p], {it \in order_items : it.product_id = p})

RECURSIVE FitsItems(_, _)
\* The quantities of a sequence of items add up to budget at most.
FitsItems(budget, items) ==
  IF items = <<>> THEN budget >= 0
  ELSE IF Head(items).Quantity > budget THEN FALSE
  ELSE FitsItems(budget - Head(items).Quantity, Tail(items))

\* The user of the call was validated and every item of the request is
\* acceptable on its own: an existing product, a quantity above zero and
\* within the product's stock.
EachItemInStock(c) ==
  /\ userCalls[c] = <<"OK">>
  /\ Len(requestedItems(c)) > 0
  /\ \A i \in 1..Len(requestedItems(c)) :
       /\ requestedItems(c)[i].ProductID \in ProductIDs
       /\ requestedItems(c)[i].Quantity > 0
       /\ requestedItems(c)[i].Quantity
            <= InitStock[requestedItems(c)[i].ProductID]

\* The items naming p ask together for more than the stock of p.
SumOverStock(c, p) ==
  /\ p \in ProductIDs
  /\ ItemsOf(c, p) # <<>>
  /\ ~FitsItems(InitStock[p], ItemsOf(c, p))

C26_DeltaNegativeNoWrap ==
  /\ \A p \in ProductIDs : stock[p] <= InitStock[p]
  /\ \A c \in Calls :
       \A k \in 1..Len(stockCalls[c]) :
         /\ stockCalls[c][k].QuantityChange < 0
         /\ Cancels(stockCalls[c][k].QuantityChange,
                    ItemsOf(c, stockCalls[c][k].ProductId))

\* C27: the items of the order a successful call returns, and their rows in
\* the store, follow the items of the request one by one.
C27_ItemsInRequestOrder ==
  \A c \in Calls :
    Succeeded(c) =>
      \A i \in 1..Len(ret[c].order[1].Items) :
        /\ ret[c].order[1].Items[i].ProductID = requestedItems(c)[i].ProductID
        /\ ret[c].order[1].Items[i].Quantity = requestedItems(c)[i].Quantity

\* wg.Wait() has returned or can return: every iteration of the launch loop
\* is over and every launched goroutine has called wg.Done().
Joined(c) ==
  \/ PastFanOut(c) /\ next[c] > Len(requestedItems(c))
  \/ pc[c] = "launch" /\ next[c] > Len(requestedItems(c)) /\ wg[c] = 0

\* C30: once the fan-out is joined, a nil firstError means that every
\* requested item was processed; and no call returns the untyped error
\* "failed to process all items in the order".
C30_SafeguardUnreachable ==
  \A c \in Calls :
    /\ (Joined(c) /\ ~HasError(firstError[c])) =>
         Len(processedItems[c]) = Len(requestedItems(c))
    /\ ret[c].err # ErrUntyped

\* The fan-out of three items is joined with no error, before the checks
\* that follow wg.Wait().
C30_Witness ==
  /\ pc["c1"] = "launch"
  /\ Joined("c1")
  /\ ~HasError(firstError["c1"])
  /\ Len(processedItems["c1"]) = 3
  /\ processedItems["c1"][1].ProductID = "P2"

\* The goroutines of call c that were started and have not finished.
Running(c) == {t \in ItemIdx : task[c][t] \notin {"idle", "done"}}

\* C28: every CreateOrder call that begins returns, and every goroutine it
\* started finishes; the WaitGroup counts the goroutines still running (each
\* signals once, when it finishes), and the mutex is held only by a goroutine
\* inside one of its locked sections.
C28_CreateOrderReturns ==
  /\ \A c \in Calls : (pc[c] = "start") ~> Returned(c)
  /\ \A c \in Calls : \A t \in ItemIdx :
       (task[c][t] \in {"lock1", "lock2"}) ~> (task[c][t] = "done")
  /\ [](\A c \in Calls :
         /\ wg[c] = Cardinality(Running(c))
         /\ mu[c] # 0 => task[c][mu[c]] \in {"check", "record"})

\* A call of three items has returned after its join: one goroutine recorded
\* a failure, one left at its first check, and all have released the mutex
\* and signalled the WaitGroup.
C28_Witness ==
  /\ Returned("c1")
  /\ Len(requestedItems("c1")) = 3
  /\ \A t \in 1..3 : task["c1"][t] = "done"
  /\ HasError(firstError["c1"])
  /\ productCalls["c1"] = 2
  /\ wg["c1"] = 0
  /\ mu["c1"] = 0

\* C23: an UpdateStock call that follows the first one of a CreateOrder call
\* (the commit phase has then begun) is never failed by the cancellation of
\* the caller's ctx; and a call cancelled after its first UpdateStock went
\* through still sends an UpdateStock for every product of its delta map.
C23_CommitPhaseIgnoresCancel ==
  \A c \in Calls :
    /\ \A k \in 2..Len(stockCalls[c]) : stockCalls[c][k].code # "Canceled"
    /\ (Returned(c) /\ ctxDone[c] /\ stockCalls[c] # <<>>
          /\ \A k \in 1..Len(stockCalls[c]) :
               stockCalls[c][k].code \in {"OK", "Canceled"}) =>
         \A p \in DOMAIN productStockUpdates[c] : StockCallsFor(c, p) # {}

\* The call of caller k has returned.
UserAnswered(k) == uc[k].pc = "done"

\* What a call of the user service hands back.
UserResult(k) == [user |-> uc[k].user, token |-> uc[k].token, err |-> uc[k].err]

\* The email is that of a row of the users table.
Registered(email) == \E u \in users : u.email = email

\* C21: a CreateUser call that begins when its email is that of a stored
\* user, and whose lookup the database answers, returns ErrUserAlreadyExists
\* at once, without a call of the repository's CreateUser and with the users
\* table as it was; and no call that returned ErrUserAlreadyExists has called
\* the repository's CreateUser or has a row of its own.
C21_ExistingEmailRejected ==
  [][\A k \in Callers :
       /\ (uc[k].pc = "idle" /\ uc'[k].op = "create"
             /\ Registered(uc'[k].email) /\ uc'[k].err # ErrDB) =>
            /\ uc'[k].pc = "done"
            /\ uc'[k].err = ErrUserAlreadyExists
            /\ uc'[k].user = <<>>
            /\ uc'[k].creates = 0
            /\ users' = users
       /\ uc'[k].err = ErrUserAlreadyExists =>
            /\ uc'[k].creates = 0
            /\ ~\E u \in users' : u.id = k]_vars

\* A caller asked for a second account on the email of a user created by
\* another caller and was turned down; the table has the two users it had.
C21_Witness ==
  /\ uc["k1"].op = "create" /\ uc["k1"].err = NilErr /\ uc["k1"].email = "e2"
  /\ uc["k2"].op = "create" /\ uc["k2"].email = "e2"
  /\ uc["k2"].username = "n1"
  /\ uc["k2"].err = ErrUserAlreadyExists
  /\ uc["k2"].creates = 0
  /\ Cardinality(users) = 2

\* What LoginUser hands back when it turns the caller down.
Denied == [user |-> <<>>, token |-> <<>>, err |-> ErrInvalidCredentials]

\* The password is that of the stored user with this email.
PasswordMatches(email, password) ==
  \E u \in users : u.email = email /\ u.password_hash[3] = password

\* C22: a LoginUser call the database answered hands back Denied, the same
\* value whether the email is unknown or the password is wrong, unless the
\* password is that of the user with this email; then, and only then, it
\* hands back that user and a token that is not empty.  (The users table
\* only grows and a row never changes, so what held when the call read the
\* table for a registered email still holds.)
C22_LoginDoesNotRevealEmail ==
  \A k \in Callers :
    (UserAnswered(k) /\ uc[k].op = "login" /\ uc[k].err # ErrDB) =>
      /\ (uc[k].user # <<>> \/ uc[k].token # <<>> \/ uc[k].err = NilErr) =>
           /\ PasswordMatches(uc[k].email, uc[k].password)
           /\ uc[k].err = NilErr
           /\ uc[k].token # <<>>
           /\ Len(uc[k].user) = 1
           /\ uc[k].user[1] \in users
           /\ uc[k].user[1].email = uc[k].email
      /\ ~(uc[k].user # <<>> \/ uc[k].token # <<>> \/ uc[k].err = NilErr) =>
           UserResult(k) = Denied
      /\ (Registered(uc[k].email)
            /\ ~PasswordMatches(uc[k].email, uc[k].password)) =>
           UserResult(k) = Denied

\* Three logins: one with an email nobody has, one with a wrong password for
\* a registered email, one with the right password.  The first two callers
\* hold the same result.
C22_Witness ==
  /\ \A k \in Callers : UserAnswered(k) /\ uc[k].op = "login"
  /\ uc["k1"].email = "e2" /\ ~Registered("e2")
  /\ uc["k2"].email = "e1" /\ uc["k2"].password = "xx"
  /\ UserResult("k1") = UserResult("k2")
  /\ UserResult("k1") = Denied
  /\ uc["k3"].email = "e1" /\ uc["k3"].password = "pw"
  /\ uc["k3"].err = NilErr
  /\ uc["k3"].token = Token("u1")

\* C29: of two CreateUser calls with the same email (and usernames nobody
\* else has) that the database served and that have both returned, at most
\* one has stored a user, and the other returned ErrUserAlreadyExists.
C29_ConcurrentCreateSameEmail ==
  \A k1, k2 \in Callers :
    (/\ k1 # k2
     /\ UserAnswered(k1) /\ uc[k1].op = "create"
     /\ UserAnswered(k2) /\ uc[k2].op = "create"
     /\ uc[k1].email = uc[k2].email
     /\ uc[k1].username # uc[k2].username
     /\ \A u \in users :
          u.username \in {uc[k1].username, uc[k2].username} => u.id \in {k1, k2}
     /\ uc[k1].err \notin {ErrDB, ErrPassword}
     /\ uc[k2].err \notin {ErrDB, ErrPassword}) =>
      /\ Cardinality({u \in users : u.email = uc[k1].email}) <= 1
      /\ uc[k1].err # NilErr \/ uc[k2].err # NilErr
      /\ uc[k1].err # NilErr => uc[k1].err = ErrUserAlreadyExists
      /\ uc[k2].err # NilErr => uc[k2].err = ErrUserAlreadyExists

====
